---- MODULE Spec2Model ----
(***************************************************************************)
(* Model of `xsv search` (src/cmd/search.rs): the Filter enum and its      *)
(* apply method, and the run function: regex compilation, reader/writer    *)
(* set-up, header pass-through, filter selection and the streaming loop.   *)
(*                                                                         *)
(* Byte strings are sequences of byte values 0..255.  The regex crate is   *)
(* modelled on the fragment the alphabet below can express: a byte 40 "("  *)
(* is an unclosed group (compilation fails); every other byte is a         *)
(* literal, so a compiled pattern matches a field exactly when it occurs   *)
(* in it as a substring, after ASCII case folding when the pattern was     *)
(* built case-insensitively.                                               *)
(***************************************************************************)
EXTENDS Integers, Sequences, FiniteSets, TLC

\* ------------------------------------------------------------------ bounds
\* rows in the input stream, and length of the fields compared to a bound
MaxRows == 3
MaxCmpLen == 2

\* ---------------------------------------------------------------- universes
\* the argument strings: "", "(", "A", "a", "aA".
ArgStrings == {<< >>, <<40>>, <<65>>, <<97>>, <<97, 65>>}
\* "A", "B", "a" and a non-ASCII byte: the bytes of the fields compared.
CmpBytes == {65, 66, 97, 195}
\* the field values the input rows are built from: "A" and "a".
FieldVals == {<<65>>, <<97>>}

StringsOver(B, n) == UNION {[1..k -> B] : k \in 0..n}

CmpStrings == StringsOver(CmpBytes, MaxCmpLen)

\* rows of the input: rectangular, two columns (the reader is not flexible).
Rows == {<<a, b>> : a \in FieldVals, b \in FieldVals}

\* the Selections the select syntax can resolve to over two columns
\* (the empty one is what an inverted selection of every column gives).
SelChoices == {<< >>, <<1>>, <<2>>, <<1, 2>>}

NoPattern == [src |-> << >>, ci |-> FALSE, valid |-> FALSE]
NoFilter == [kind |-> "None"]

VARIABLES
    \* struct Args
    arg_regex, flag_select, flag_no_headers, flag_invert_match,
    flag_ignore_case, flag_greater_than, flag_less_than,
    \* the input stream: the number of rows it holds and the rows pulled
    \* from it so far (a row's content is fixed when it is first pulled)
    input_len, input,
    \* the reader over it
    rdr_open, rdr_pos, rdr_first,
    \* the writer: rows written so far, and the flushes done
    wtr_open, output, flushes,
    \* locals of run
    pattern, headers, sel, record, filter, m,
    \* position in run, and the error it returned
    pc, err,
    \* history: compilations done, rows read (by index), rows evaluated
    \* (by index), the filter each evaluation applied, header writes
    compiles, read_log, evaluated, applied, hdr_writes

args == <<arg_regex, flag_select, flag_no_headers, flag_invert_match,
          flag_ignore_case, flag_greater_than, flag_less_than>>
rdr == <<rdr_open, rdr_pos, rdr_first>>
wtr == <<wtr_open, output, flushes>>
locals == <<pattern, headers, sel, record, filter, m>>
hist == <<compiles, read_log, evaluated, applied, hdr_writes>>
stream == <<input_len, input>>
vars == <<args, stream, rdr, wtr, locals, pc, err, hist>>

\* ------------------------------------------------------------ regex crate
\* RegexBuilder::build: fails on an unclosed group.
RegexValid(s) == \A i \in 1..Len(s) : s[i] # 40

\* ASCII case folding of one byte.
Fold(b) == IF b \in 65..90 THEN b + 32 ELSE b

ByteEq(x, y, ci) == IF ci THEN Fold(x) = Fold(y) ELSE x = y

\* Regex::is_match: unanchored search of the literal pattern in the field.
IsMatch(p, field) ==
    \E off \in 0..(Len(field) - Len(p.src)) :
        \A j \in 1..Len(p.src) : ByteEq(field[off + j], p.src[j], p.ci)

RegexBuild(s, ci) == [src |-> s, ci |-> ci, valid |-> TRUE]

\* ------------------------------------------------------- slice comparison
\* Ord for [u8]: the first differing byte decides, compared as unsigned
\* values; when one slice is a prefix of the other the lengths decide.
RECURSIVE CmpFrom(_, _, _)
CmpFrom(a, b, i) ==
    IF i > Len(a) \/ i > Len(b)
    THEN (IF Len(a) < Len(b) THEN -1 ELSE IF Len(a) > Len(b) THEN 1 ELSE 0)
    ELSE IF a[i] < b[i] THEN -1
    ELSE IF a[i] > b[i] THEN 1
    ELSE CmpFrom(a, b, i + 1)

SliceCmp(a, b) == CmpFrom(a, b, 1)

\* ------------------------------------------------------ enum Filter, apply
FilterEq(p) == [kind |-> "Eq", pattern |-> p]
FilterLeq(b) == [kind |-> "Leq", bound |-> b]
FilterGeq(b) == [kind |-> "Geq", bound |-> b]

Apply_strict(f, field) ==
    CASE f.kind = "Eq" -> IsMatch(f.pattern, field)
      [] f.kind = "Leq" -> SliceCmp(field, f.bound) < 0
      [] f.kind = "Geq" -> SliceCmp(field, f.bound) > 0

\* Filter::apply
Apply(f, field) ==
    CASE f.kind = "Eq" -> IsMatch(f.pattern, field)
      [] f.kind = "Leq" -> SliceCmp(field, f.bound) <= 0
      [] f.kind = "Geq" -> SliceCmp(field, f.bound) >= 0

SelectFilter_both(gt, lt, pat, arg) ==
    CASE ~gt /\ ~lt -> FilterEq(pat)
      [] ~gt /\ lt -> FilterLeq(arg)
      [] gt /\ ~lt -> FilterGeq(arg)
      [] gt /\ lt -> FilterGeq(arg)

\* the match on (flag_greater_than, flag_less_than)
SelectFilter(gt, lt, pat, arg) ==
    CASE ~gt /\ ~lt -> FilterEq(pat)
      [] ~gt /\ lt -> FilterLeq(arg)
      [] gt /\ ~lt -> FilterGeq(arg)
      [] gt /\ lt -> FilterEq(pat)

\* Selection::select: the fields of the row at the selected indices, in
\* selection order.
SelectFields(s, row) == [i \in 1..Len(s) |-> row[s[i]]]

RECURSIVE AllFrom(_, _, _)
AllFrom(f, fields, i) ==
    IF i > Len(fields) THEN TRUE
    ELSE IF ~Apply(f, fields[i]) THEN FALSE
    ELSE AllFrom(f, fields, i + 1)

AnyFrom_all(f, fields, i) == AllFrom(f, fields, i)

\* Iterator::any: stops at the first field the filter accepts.
RECURSIVE AnyFrom(_, _, _)
AnyFrom(f, fields, i) ==
    IF i > Len(fields) THEN FALSE
    ELSE IF Apply(f, fields[i]) THEN TRUE
    ELSE AnyFrom(f, fields, i + 1)

\* the value of m the loop body computes for a row
RowDecision(s, row, f, invert) ==
    LET any == AnyFrom(f, SelectFields(s, row), 1)
    IN  IF invert THEN ~any ELSE any

\* Config::selection: the indices must exist in the header row.
SelectionValid(s, hdr) == \A i \in 1..Len(s) : s[i] \in 1..Len(hdr)

\* -------------------------------------------------------------------- Init
Init ==
    /\ arg_regex \in ArgStrings
    /\ flag_select \in SelChoices
    /\ flag_no_headers \in BOOLEAN
    /\ flag_invert_match \in BOOLEAN
    /\ flag_ignore_case \in BOOLEAN
    /\ flag_greater_than \in BOOLEAN
    /\ flag_less_than \in BOOLEAN
    /\ input_len \in 0..MaxRows /\ input = << >>
    /\ rdr_open = FALSE /\ rdr_pos = 0 /\ rdr_first = FALSE
    /\ wtr_open = FALSE /\ output = << >> /\ flushes = 0
    /\ pattern = NoPattern /\ headers = << >> /\ sel = << >>
    /\ record = << >> /\ filter = NoFilter /\ m = FALSE
    /\ pc = "compile" /\ err = "none"
    /\ compiles = 0 /\ read_log = << >> /\ evaluated = << >>
    /\ applied = << >> /\ hdr_writes = 0

Fail(kind) == pc' = "error" /\ err' = kind

\* ------------------------------------------------------------------ run
Compile_deferred ==
    /\ pc = "compile"
    /\ compiles' = compiles + 1
    /\ pattern' = IF RegexValid(arg_regex)
                  THEN RegexBuild(arg_regex, flag_ignore_case)
                  ELSE pattern
    /\ IF RegexValid(arg_regex) \/ flag_greater_than # flag_less_than
       THEN pc' = "reader" /\ err' = err
       ELSE pc' = "reader" /\ err' = "regex"
    /\ UNCHANGED <<args, stream, rdr, wtr, headers, sel, record, filter, m,
                   read_log, evaluated, applied, hdr_writes>>

\* RegexBuilder::new(arg_regex).case_insensitive(flag_ignore_case).build()?
\* It is built whatever the bound-mode flags are.
Compile ==
    /\ pc = "compile"
    /\ compiles' = compiles + 1
    /\ IF RegexValid(arg_regex)
       THEN /\ pattern' = RegexBuild(arg_regex, flag_ignore_case)
            /\ pc' = "reader" /\ err' = err
       ELSE /\ Fail("regex")
            /\ pattern' = pattern
    /\ UNCHANGED <<args, stream, rdr, wtr, headers, sel, record, filter, m,
                   read_log, evaluated, applied, hdr_writes>>

\* rconfig.reader()?
OpenReader ==
    /\ pc = "reader"
    /\ \E ok \in BOOLEAN :
        IF ok THEN rdr_open' = TRUE /\ pc' = "writer" /\ err' = err
        ELSE rdr_open' = rdr_open /\ Fail("io")
    /\ UNCHANGED <<args, stream, rdr_pos, rdr_first, wtr, locals, hist>>

\* Config::new(&args.flag_output).writer()?
OpenWriter ==
    /\ pc = "writer"
    /\ \E ok \in BOOLEAN :
        IF ok THEN wtr_open' = TRUE /\ pc' = "headers" /\ err' = err
        ELSE wtr_open' = wtr_open /\ Fail("io")
    /\ UNCHANGED <<args, stream, rdr, output, flushes, locals, hist>>

\* rdr.byte_headers()?.clone(): the reader pulls the first row of the
\* stream; when the reader has no header row (flag_no_headers) it keeps
\* that row to hand it out again as the first record.
ReadHeaders ==
    /\ pc = "headers"
    /\ \E ok \in BOOLEAN :
        IF ~ok
        THEN /\ UNCHANGED <<input, headers, rdr_pos, read_log, rdr_first>>
             /\ Fail("io")
        ELSE IF input_len = 0
        THEN /\ headers' = << >>
             /\ UNCHANGED <<input, rdr_pos, read_log, rdr_first>>
             /\ pc' = "selection" /\ err' = err
        ELSE \E row \in Rows :
             /\ input' = Append(input, row)
             /\ headers' = row
             /\ rdr_pos' = 1
             /\ read_log' = Append(read_log, 1)
             /\ rdr_first' = flag_no_headers
             /\ pc' = "selection" /\ err' = err
    /\ UNCHANGED <<args, input_len, rdr_open, wtr, pattern, sel, record,
                   filter, m, compiles, evaluated, applied, hdr_writes>>

\* rconfig.selection(&headers)?
ResolveSelection ==
    /\ pc = "selection"
    /\ IF SelectionValid(flag_select, headers)
       THEN sel' = flag_select /\ pc' = "write_headers" /\ err' = err
       ELSE sel' = sel /\ Fail("select")
    /\ UNCHANGED <<args, stream, rdr, wtr, pattern, headers, record, filter,
                   m, hist>>

WriteHeaders_evaluated ==
    /\ pc = "write_headers"
    /\ IF ~flag_no_headers
          /\ AnyFrom(SelectFilter(flag_greater_than, flag_less_than,
                                  pattern, arg_regex),
                     SelectFields(sel, headers), 1)
       THEN /\ output' = Append(output, headers)
            /\ hdr_writes' = hdr_writes + 1
            /\ pc' = "filter" /\ err' = err
       ELSE /\ UNCHANGED <<output, hdr_writes, err>>
            /\ pc' = "filter"
    /\ UNCHANGED <<args, stream, rdr, wtr_open, flushes, locals, compiles,
                   read_log, evaluated, applied>>

\* if !rconfig.no_headers { wtr.write_record(&headers)?; }
WriteHeaders ==
    /\ pc = "write_headers"
    /\ IF ~flag_no_headers
       THEN \E ok \in BOOLEAN :
              IF ok
              THEN /\ output' = Append(output, headers)
                   /\ hdr_writes' = hdr_writes + 1
                   /\ pc' = "filter" /\ err' = err
              ELSE /\ UNCHANGED <<output, hdr_writes>>
                   /\ Fail("io")
       ELSE /\ UNCHANGED <<output, hdr_writes, err>>
            /\ pc' = "filter"
    /\ UNCHANGED <<args, stream, rdr, wtr_open, flushes, locals, compiles,
                   read_log, evaluated, applied>>

\* let filter = match (args.flag_greater_than, args.flag_less_than) {...}
BuildFilter ==
    /\ pc = "filter"
    /\ filter' = SelectFilter(flag_greater_than, flag_less_than, pattern,
                              arg_regex)
    /\ pc' = "read"
    /\ UNCHANGED <<args, stream, rdr, wtr, pattern, headers, sel, record, m,
                   err, hist>>

\* while rdr.read_byte_record(&mut record)?
ReadRecord ==
    /\ pc = "read"
    /\ \E ok \in BOOLEAN :
        IF ~ok
        THEN /\ UNCHANGED <<input, rdr_pos, rdr_first, record, read_log>>
             /\ Fail("io")
        ELSE IF rdr_first
        THEN /\ record' = headers
             /\ rdr_first' = FALSE
             /\ UNCHANGED <<input, rdr_pos, read_log, err>>
             /\ pc' = "eval"
        ELSE IF rdr_pos < input_len
        THEN \E row \in Rows :
             /\ input' = Append(input, row)
             /\ record' = row
             /\ rdr_pos' = rdr_pos + 1
             /\ read_log' = Append(read_log, rdr_pos + 1)
             /\ UNCHANGED <<rdr_first, err>>
             /\ pc' = "eval"
        ELSE /\ UNCHANGED <<input, rdr_pos, rdr_first, record, read_log,
                            err>>
             /\ pc' = "flush"
    /\ UNCHANGED <<args, input_len, rdr_open, wtr, pattern, headers, sel,
                   filter, m, compiles, evaluated, applied, hdr_writes>>

EvalRow_selected ==
    /\ pc = "eval"
    /\ m' = RowDecision(sel, record, filter, flag_invert_match)
    /\ evaluated' = Append(evaluated, rdr_pos)
    /\ applied' = Append(applied, filter)
    /\ IF m'
       THEN \E ok \in BOOLEAN :
              IF ok
              THEN output' = Append(output, SelectFields(sel, record))
                   /\ pc' = "read" /\ err' = err
              ELSE output' = output /\ Fail("io")
       ELSE output' = output /\ pc' = "read" /\ err' = err
    /\ UNCHANGED <<args, stream, rdr, wtr_open, flushes, pattern, headers,
                   sel, record, filter, compiles, read_log, hdr_writes>>

EvalRow_swallow ==
    /\ pc = "eval"
    /\ m' = RowDecision(sel, record, filter, flag_invert_match)
    /\ evaluated' = Append(evaluated, rdr_pos)
    /\ applied' = Append(applied, filter)
    /\ IF m'
       THEN \E ok \in BOOLEAN :
              IF ok
              THEN output' = Append(output, record) /\ pc' = "read"
                   /\ err' = err
              ELSE output' = output /\ pc' = "read" /\ err' = "io"
       ELSE output' = output /\ pc' = "read" /\ err' = err
    /\ UNCHANGED <<args, stream, rdr, wtr_open, flushes, pattern, headers,
                   sel, record, filter, compiles, read_log, hdr_writes>>

EvalRow_recompile ==
    /\ pc = "eval"
    /\ compiles' = compiles + 1
    /\ m' = RowDecision(sel, record, filter, flag_invert_match)
    /\ evaluated' = Append(evaluated, rdr_pos)
    /\ applied' = Append(applied, filter)
    /\ IF m'
       THEN \E ok \in BOOLEAN :
              IF ok
              THEN output' = Append(output, record) /\ pc' = "read"
                   /\ err' = err
              ELSE output' = output /\ Fail("io")
       ELSE output' = output /\ pc' = "read" /\ err' = err
    /\ UNCHANGED <<args, stream, rdr, wtr_open, flushes, pattern, headers,
                   sel, record, filter, read_log, hdr_writes>>

\* the loop body: m = sel.select(&record).any(|f| filter.apply(f)),
\* negated under flag_invert_match; wtr.write_byte_record(&record)? if m
EvalRow ==
    /\ pc = "eval"
    /\ m' = RowDecision(sel, record, filter, flag_invert_match)
    /\ evaluated' = Append(evaluated, rdr_pos)
    /\ applied' = Append(applied, filter)
    /\ IF m'
       THEN \E ok \in BOOLEAN :
              IF ok
              THEN output' = Append(output, record) /\ pc' = "read"
                   /\ err' = err
              ELSE output' = output /\ Fail("io")
       ELSE output' = output /\ pc' = "read" /\ err' = err
    /\ UNCHANGED <<args, stream, rdr, wtr_open, flushes, pattern, headers,
                   sel, record, filter, compiles, read_log, hdr_writes>>

Flush_skip ==
    /\ pc = "flush"
    /\ flushes' = flushes /\ pc' = "done" /\ err' = err
    /\ UNCHANGED <<args, stream, rdr, wtr_open, output, locals, hist>>

\* Ok(wtr.flush()?)
Flush ==
    /\ pc = "flush"
    /\ \E ok \in BOOLEAN :
        IF ok THEN flushes' = flushes + 1 /\ pc' = "done" /\ err' = err
        ELSE flushes' = flushes /\ Fail("io")
    /\ UNCHANGED <<args, stream, rdr, wtr_open, output, locals, hist>>

Next ==
    \/ Compile
    \/ OpenReader
    \/ OpenWriter
    \/ ReadHeaders
    \/ ResolveSelection
    \/ WriteHeaders
    \/ BuildFilter
    \/ ReadRecord
    \/ EvalRow
    \/ Flush

Spec == Init /\ [][Next]_vars

\* run is one sequential function: it always takes its next step.
FairSpec == Spec /\ WF_vars(Next)

TypeOK ==
    /\ pc \in {"compile", "reader", "writer", "headers", "selection",
               "write_headers", "filter", "read", "eval", "flush", "done",
               "error"}
    /\ err \in {"none", "regex", "io", "select"}
    /\ rdr_pos \in 0..input_len
    /\ Len(input) = rdr_pos

\* ------------------------------------------------------------ properties
Range(q) == {q[i] : i \in 1..Len(q)}

\* the rows after the header row (all rows when there is no header row)
DataRowsIn == IF flag_no_headers \/ input = << >> THEN input ELSE Tail(input)
\* the rows written after the header row
DataRowsOut == IF flag_no_headers \/ output = << >> THEN output
               ELSE Tail(output)

\* some field at a selected index satisfies the predicate
SomeSelectedSatisfies(s, row, f) ==
    \E i \in 1..Len(s) : Apply(f, row[s[i]])

\* C1: the Decision of the row just evaluated is "some selected field
\* satisfies the Predicate", negated exactly when invert-match is on; an
\* empty Selection gives false (true under invert-match).
C1_DecisionIsAnyThenInvert ==
    (pc = "read" /\ evaluated # << >>) =>
        m = (SomeSelectedSatisfies(sel, record, filter)
             # flag_invert_match)

\* a row was rejected although a field outside the Selection satisfies
\* the predicate
C1_Witness ==
    /\ pc = "read" /\ evaluated # << >>
    /\ sel = <<1>> /\ ~flag_invert_match /\ ~m
    /\ Apply(filter, record[2])

\* C2: on success the data rows written are exactly the input data rows
\* whose Decision is true, whole and in input order.
C2_OutputIsFilteredInput ==
    pc = "done" =>
        LET Keep(row) == RowDecision(sel, row, filter, flag_invert_match)
        IN  DataRowsOut = SelectSeq(DataRowsIn, Keep)

\* of two data rows only the second was forwarded, whole, while one column
\* was searched
C2_Witness ==
    /\ pc = "done" /\ ~flag_no_headers
    /\ Len(input) = 3 /\ input[2] # input[3]
    /\ DataRowsOut = <<input[3]>>
    /\ Len(sel) = 1

\* C3: with headers enabled the header row is written exactly once, first,
\* and is never evaluated; with headers disabled nothing is written
\* unconditionally and the first row is evaluated like the others.
C3_HeaderPassThrough ==
    /\ hdr_writes <= 1
    /\ flag_no_headers => hdr_writes = 0
    /\ (~flag_no_headers /\ hdr_writes = 0) => output = << >>
    /\ (~flag_no_headers /\ pc \in {"filter", "read", "eval", "flush", "done"})
         => /\ hdr_writes = 1
            /\ output # << >> /\ output[1] = headers
            /\ input # << >> => output[1] = input[1]
    /\ ~flag_no_headers => 1 \notin Range(evaluated)
    /\ pc = "done" =>
         evaluated = IF flag_no_headers \/ input = << >>
                     THEN [i \in 1..Len(input) |-> i]
                     ELSE [i \in 1..(Len(input) - 1) |-> i + 1]
    /\ (flag_no_headers /\ pc = "done") =>
         LET Keep(row) == RowDecision(sel, row, filter, flag_invert_match)
         IN  output = SelectSeq(input, Keep)

\* the run succeeded writing the header row only, although the header row
\* does not satisfy the row test and a data row equal to it was dropped
C3_Witness ==
    /\ pc = "done" /\ ~flag_no_headers
    /\ Len(input) = 2 /\ input[2] = input[1]
    /\ output = <<input[1]>>
    /\ ~RowDecision(sel, headers, filter, flag_invert_match)

C5_ConfigErrorOnlyInRegexMode ==
    (pc = "error" /\ err = "regex") =>
        (flag_greater_than = flag_less_than)

\* C6: in regex mode an argument that does not compile fails the run at
\* once, before the input or output is opened, read or written.
C6_RegexErrorBeforeIO ==
    /\ err = "regex" =>
         /\ pc = "error"
         /\ ~rdr_open /\ ~wtr_open
         /\ rdr_pos = 0 /\ read_log = << >>
         /\ output = << >> /\ hdr_writes = 0 /\ flushes = 0
    /\ (flag_greater_than = flag_less_than /\ ~RegexValid(arg_regex)
        /\ pc # "compile") => (pc = "error" /\ err = "regex")

\* a run over a non-empty stream with headers enabled failed on the regex
C6_Witness ==
    /\ pc = "error" /\ err = "regex"
    /\ flag_greater_than = flag_less_than
    /\ ~flag_no_headers /\ input_len > 0

\* byte-lexicographic order, stated directly: a is below b when a is a
\* proper prefix of b or the first byte where they differ is smaller in a
LexLess(a, b) ==
    \E k \in 1..Len(b) :
        /\ k <= Len(a) + 1
        /\ \A j \in 1..(k - 1) : a[j] = b[j]
        /\ (k = Len(a) + 1 \/ a[k] < b[k])

\* C7: a Leq filter accepts exactly the fields <= its bound and a Geq
\* filter exactly the fields >= its bound, in byte-lexicographic order
\* (unsigned, prefix first, equality included), whatever ignore-case is.
C7_BoundComparison ==
    (pc = "read" /\ filter.kind \in {"Leq", "Geq"}) =>
        \A f \in CmpStrings :
            Apply(filter, f) =
                IF filter.kind = "Leq"
                THEN f = filter.bound \/ LexLess(f, filter.bound)
                ELSE f = filter.bound \/ LexLess(filter.bound, f)

\* ignore-case is on, the bound is "A", and a row of "a" fields was
\* rejected by a Leq filter ("a" <= "A" is false on bytes)
C7_Witness ==
    /\ pc = "read" /\ evaluated # << >>
    /\ flag_ignore_case /\ ~flag_invert_match
    /\ filter.kind = "Leq" /\ filter.bound = <<65>>
    /\ record = <<(<<97>>), (<<97>>)>> /\ sel = <<1, 2>>
    /\ ~m

C8_Step ==
    /\ pc # "error"
    /\ err' # "none" => pc' = "error"
    /\ pc' = "error" =>
          /\ output' = output
          /\ rdr_pos' = rdr_pos /\ read_log' = read_log
          /\ flushes' = flushes

\* C8: a step that hits an I/O error ends the run in failure: nothing is
\* read, evaluated or written after it, success is not reached, and the
\* rows already written stay as they are.
C8_IoErrorAborts == [][C8_Step]_vars

\* a write failed after the header row and a data row had been written
C8_Witness ==
    /\ pc = "error" /\ err = "io"
    /\ Len(output) = 2 /\ hdr_writes = 1
    /\ Len(evaluated) = 2 /\ m

\* C9: the run always ends; when it ends in success every input row has
\* been read exactly once, in order, and the output was flushed exactly
\* once, as the last step of the run.
C9_TerminatesFlushedOnce ==
    /\ [](/\ flushes <= 1
          /\ (flushes = 1) <=> (pc = "done")
          /\ pc = "error" => err # "none"
          /\ pc = "done" =>
               /\ err = "none"
               /\ rdr_pos = input_len /\ Len(input) = input_len
               /\ read_log = [i \in 1..input_len |-> i])
    /\ [][pc # "done"]_vars
    /\ <>(pc \in {"done", "error"})

C9_Witness ==
    /\ pc = "done" /\ flushes = 1
    /\ Len(input) = 3 /\ Len(output) = 3

\* C10: the regex is compiled exactly once, before anything is read, and
\* one filter, fixed by the arguments, is the one applied to every row.
C10_OnePredicatePerRun ==
    /\ compiles <= 1
    /\ (pc # "compile") => compiles = 1
    /\ (rdr_open \/ read_log # << >>) => compiles = 1
    /\ pattern # NoPattern => pattern = RegexBuild(arg_regex, flag_ignore_case)
    /\ filter # NoFilter =>
         filter = SelectFilter(flag_greater_than, flag_less_than,
                               RegexBuild(arg_regex, flag_ignore_case),
                               arg_regex)
    /\ \A i \in 1..Len(applied) : applied[i] = filter /\ filter # NoFilter

C10_Witness ==
    /\ Len(applied) = 3 /\ compiles = 1 /\ pc = "done"
    /\ filter.kind = "Eq"

====
